---- MODULE Spec2Model ----
(***************************************************************************)
(* Worker pool of the lifecycle monitor (WorkerPool in                     *)
(* src/internal/user/handler.go, lines 393-789): a bounded intake queue,   *)
(* NumWorkers worker goroutines, one fire-and-forget result processor, a   *)
(* correlation table (syncResults) from job ids to result channels, and    *)
(* the three submission modes Submit, SubmitAndWait and SubmitBatch.       *)
(*                                                                         *)
(* Every goroutine is a process with a program counter.  A step is one    *)
(* critical section or one channel operation of the Go code.  A Go select  *)
(* with several ready cases is a nondeterministic choice among them, its   *)
(* default case is taken only when none is ready.                          *)
(***************************************************************************)
EXTENDS Integers, Sequences, FiniteSets, Bags, TLC

\* ------------------------------------------------------------------ bounds
NumWorkers == 2        \* WorkerPoolConfig.NumWorkers
QueueSize == 1         \* WorkerPoolConfig.QueueSize: capacity of wp.jobs and wp.results
MaxNano == 1           \* the clock, time.Now().UnixNano(), takes the values 0..MaxNano
MaxJobs == 2           \* the callers hand at most MaxJobs jobs to the pool in all
MaxProducts == 2       \* the products table holds at most MaxProducts product codes
MaxRecipients == 1     \* at most MaxRecipients alert recipients are configured
MaxNowProducts == 1    \* two runs at once: the products table holds at most MaxNowProducts

\* The callers, in the order in which they make their calls.
CallerOrder == <<"c1", "c2">>
Callers == {CallerOrder[i] : i \in 1..Len(CallerOrder)}
\* A product code is the sequence of the tokens that "-" separates in its text.
Codes == {<<"A">>}
NoID == <<>>           \* the empty jobID "" of a fire-and-forget job

VARIABLES
    isRunning,      \* wp.isRunning
    ctxDone,        \* wp.ctx is cancelled
    jobs,           \* buffered channel wp.jobs
    jobsClosed,
    results,        \* buffered channel wp.results
    resultsClosed,
    crawlerOpen,    \* the crawler (browser session) is started
    wg,             \* wp.wg counter
    syncResults,    \* wp.syncResults: jobID -> channel (named by the caller that made it)
    wk,             \* the worker goroutines, a bag of [pc, job, err, ch]
    ppc,            \* the processResults goroutine
    spc,            \* the Stop call
    op, pc, cjobs, idx, cancelled, ret,   \* the callers
    ich,            \* per caller: resultChan (SubmitAndWait) / internalChan (SubmitBatch)
    out,            \* per caller: results put on outputChan / received by SubmitAndWait
    outClosed,      \* per caller: outputChan is closed
    saved,          \* history: jobs passed to saveSnapshot by processResults
    now,            \* the clock that time.Now().UnixNano() reads
    spc2,           \* a second Stop call, concurrent with the first
    \* the scheduler (src/internal/scheduler/scheduler.go) and what it works on
    alertRecipients,  \* Scheduler.alertRecipients: how many are configured
    lifecycle,        \* products.lifecycle_status, by product ("" when NULL)
    rpc,              \* per run of runLifecycleUpdateJob: its position
    outcome,          \* per run: how it ended
    got,              \* per run, history: the Results received from resultsChan
    saves,            \* per run, history: the calls of SaveCrawlResult
    successCount, errorCount, statusChanges,   \* per run: its local variables
    sends             \* per run, history: the calls of email.Send

pool == <<isRunning, ctxDone, jobs, jobsClosed, results, resultsClosed, crawlerOpen, wg>>
procs == <<wk, ppc, spc>>
calls == <<op, pc, cjobs, idx, cancelled, ret>>
chans == <<ich, out, outClosed>>
sched == <<alertRecipients, lifecycle, rpc, outcome, got, saves,
           successCount, errorCount, statusChanges, sends>>
rest == <<spc2, sched>>
vars == <<pool, syncResults, procs, calls, chans, saved, now, rest>>

\* ------------------------------------------------------------ data model
Job(code, id, owner, i) == [code |-> code, jobID |-> id, owner |-> owner, idx |-> i]
NoJob == Job(<<>>, NoID, "none", 0)
\* A fetch that hands back data together with its error (the mutant of CollectData).
CollectDataAlways(err) == TRUE
\* Crawler.Collect, lines 127-340, returns (nil, err) or (data, nil): whether the
\* data it returns is there, given whether its error is.
CollectData(err) == ~err
\* WorkerResult{Job: job, Data: data, Error: err} of lines 643-647; Data and Error
\* are modelled by whether they are set.
WorkerResult(job, err) == [Job |-> job, Data |-> CollectData(err), Error |-> err]

\* fmt.Sprintf("%s-%d", code, nano)
SyncKey(code, nano) == code \o <<nano>>
\* fmt.Sprintf("%s-%d-%d", code, nano, i)
BatchKey(code, nano, i) == code \o <<nano, i>>

IdleWorker(p) == [pc |-> p, job |-> NoJob, err |-> FALSE, ch |-> "none"]

\* ------------------------------------------------------ correlation table
Registered(k) == k \in DOMAIN syncResults
TableSet(m, k, c) == [x \in DOMAIN m \cup {k} |-> IF x = k THEN c ELSE m[x]]
TableDelete(m, ks) == [x \in DOMAIN m \ ks |-> m[x]]
\* syncMu: a worker blocked in "ch <- result" holds the read lock, so Lock() waits.
\* A critical section that does not block is one step.  A writer that waits in
\* Lock() has not taken its step; that it also holds back later readers adds no
\* reachable state, a held-back reader being a worker that has not yet dispatched.
ReaderBlocked == \E r \in BagToSet(wk) : r.pc = "send" /\ r.ch # "shared"
CanLock == ~ReaderBlocked

Cap(c) == IF op[c] = "wait" THEN 1 ELSE Len(cjobs[c])
KeysOf(c, n) == {cjobs[c][i].jobID : i \in 1..n}

InitPool ==
    /\ isRunning = FALSE /\ ctxDone = FALSE
    /\ jobs = <<>> /\ jobsClosed = FALSE
    /\ results = <<>> /\ resultsClosed = FALSE
    /\ crawlerOpen = FALSE /\ wg = 0
    /\ syncResults = <<>>
    /\ wk = EmptyBag
    /\ ppc = "off" /\ spc = "idle"
    /\ op = [c \in Callers |-> "none"]
    /\ pc = [c \in Callers |-> "idle"]
    /\ cjobs = [c \in Callers |-> <<>>]
    /\ idx = [c \in Callers |-> 0]
    /\ cancelled = [c \in Callers |-> FALSE]
    /\ ret = [c \in Callers |-> "none"]
    /\ ich = [c \in Callers |-> <<>>]
    /\ out = [c \in Callers |-> <<>>]
    /\ outClosed = [c \in Callers |-> FALSE]
    /\ saved = {}
    /\ now = 0
    /\ spc2 = "idle"

\* ------------------------------------------------- scheduler: data model
\* The goroutines that run runLifecycleUpdateJob: the one that cron dispatches and
\* the one that RunNow starts.
RunOrder == <<"r1", "r2">>
Runs == {RunOrder[i] : i \in 1..Len(RunOrder)}
CronRun == RunOrder[1]
ManualRun == RunOrder[2]
\* Lifecycle statuses as the crawler reports them; "" is no status (NULL when stored).
Statuses == {"Active", "Discontinued"}
\* Products are numbered in the order of their codes, the order of the listing.
ProductCode(p) == <<"P", p>>

\* NewScheduler, lines 35-44, over a products table with n products.
InitSched(n, recipients, stored) ==
    /\ alertRecipients = recipients
    /\ lifecycle = stored
    /\ rpc = [r \in Runs |-> "idle"]
    /\ outcome = [r \in Runs |-> "none"]
    /\ got = [r \in Runs |-> <<>>]
    /\ saves = [r \in Runs |-> <<>>]
    /\ successCount = [r \in Runs |-> 0]
    /\ errorCount = [r \in Runs |-> 0]
    /\ statusChanges = [r \in Runs |-> <<>>]
    /\ sends = [r \in Runs |-> <<>>]

\* The pool on its own: no product, no alert recipient, and no run is made.
Init == InitPool /\ InitSched(0, 0, <<>>)

\* ------------------------------------------------------------- lifecycle
\* A Start without the isRunning check of lines 447-449 (the mutant of Start).
StartUnguarded ==
    \E startErr \in BOOLEAN :
        IF startErr
        THEN UNCHANGED vars
        ELSE /\ isRunning' = TRUE
             /\ crawlerOpen' = TRUE
             /\ wk' = wk (+) (IdleWorker("recv") :> NumWorkers)
             /\ ppc' = "loop"
             /\ wg' = wg + NumWorkers + 1
             /\ UNCHANGED <<rest, ctxDone, jobs, jobsClosed, results, resultsClosed, spc,
                            syncResults, calls, chans, saved, now>>

\* Start, lines 443-469, with wp.mu held throughout: nothing when already running,
\* an error (and nothing else) when crawler.Start() fails, else the crawler is
\* started, NumWorkers workers and the result processor are launched.
Start ==
    \E startErr \in BOOLEAN :
        IF isRunning \/ startErr
        THEN UNCHANGED vars
        ELSE /\ isRunning' = TRUE
             /\ crawlerOpen' = TRUE
             /\ wk' = wk (+) (IdleWorker("recv") :> NumWorkers)
             /\ ppc' = "loop"
             /\ wg' = wg + NumWorkers + 1
             /\ UNCHANGED <<rest, ctxDone, jobs, jobsClosed, results, resultsClosed, spc,
                            syncResults, calls, chans, saved, now>>

\* A call of Stop, lines 471-494, at position at, which becomes next.  One step per
\* statement once wp.mu is released:
\*   idle:  isRunning check under wp.mu, then wp.cancel()          (472-479)
\*   close: close(wp.jobs), a panic when it is closed already      (480)
\*   wait:  wp.wg.Wait(), which returns when the counter is zero   (481)
\*   res:   close(wp.results)                                      (482)
\*   crawl: wp.crawler.Stop(); isRunning = false unless it failed  (484-490)
StopCall(at, next) ==
    /\ at \in {"idle", "close", "wait", "res", "crawl"}
    /\ at = "wait" => wg = 0
    /\ next = CASE at = "idle" -> IF isRunning THEN "close" ELSE "done"
                [] at = "close" -> IF jobsClosed THEN "panic" ELSE "wait"
                [] at = "wait" -> "res"
                [] at = "res" -> IF resultsClosed THEN "panic" ELSE "crawl"
                [] OTHER -> "done"
    /\ ctxDone' = (ctxDone \/ (at = "idle" /\ isRunning))
    /\ jobsClosed' = (jobsClosed \/ at = "close")
    /\ resultsClosed' = (resultsClosed \/ at = "res")
    /\ \E stopErr \in (IF at = "crawl" THEN BOOLEAN ELSE {TRUE}) :
          /\ crawlerOpen' = (crawlerOpen /\ (at # "crawl" \/ stopErr))
          /\ isRunning' = (isRunning /\ (at # "crawl" \/ stopErr))
    /\ UNCHANGED <<jobs, results, wg, syncResults, wk, ppc, calls, chans, saved, now>>

\* The Stop call of the program.
Stop == StopCall(spc, spc') /\ UNCHANGED rest

\* A second Stop call, made once the first has been made: the two run the same
\* code, each at its own position.
Stop2 == spc # "idle" /\ StopCall(spc2, spc2') /\ UNCHANGED <<spc, sched>>

\* ---------------------------------------------------------------- worker
\* Worker r of the bag takes the local state n.
WorkerStep(r, n) == wk' = (wk (-) SetToBag({r})) (+) SetToBag({n})

\* The select of the worker loop, lines 624-630 and 661-664: the receive from
\* wp.jobs is ready when the queue holds a job or is closed, the other case when
\* the pool context is cancelled.
WorkerRecv(r) ==
    /\ r.pc = "recv"
    /\ \/ /\ jobs # <<>> \/ jobsClosed
          /\ IF jobs # <<>>
             THEN /\ WorkerStep(r, [pc |-> "busy", job |-> Head(jobs),
                                    err |-> FALSE, ch |-> "none"])
                  /\ jobs' = Tail(jobs)
                  /\ UNCHANGED wg
             ELSE /\ WorkerStep(r, IdleWorker("done"))
                  /\ wg' = wg - 1
                  /\ UNCHANGED jobs
       \/ /\ ctxDone
          /\ WorkerStep(r, IdleWorker("done"))
          /\ wg' = wg - 1
          /\ UNCHANGED jobs
    /\ UNCHANGED <<rest, isRunning, ctxDone, jobsClosed, results, resultsClosed, crawlerOpen,
                   syncResults, ppc, spc, calls, chans, saved, now>>

\* Where the worker sends the Result of job j, lines 649-659: the channel registered
\* for its jobID, nowhere when none is, wp.results when the job has no jobID.
Destination(j) ==
    IF j.jobID # NoID
    THEN IF Registered(j.jobID) THEN syncResults[j.jobID] ELSE "none"
    ELSE "shared"

HasRoom(d) ==
    IF d = "shared" THEN Len(results) < QueueSize ELSE Len(ich[d]) < Cap(d)

\* The send "ch <- r" (d a caller's channel) or "wp.results <- r" (d = "shared").
Deliver(d, r) ==
    /\ results' = IF d = "shared" THEN Append(results, r) ELSE results
    /\ ich' = IF d \in Callers THEN [ich EXCEPT ![d] = Append(@, r)] ELSE ich

\* A worker that returns when the fetch fails (the mutant of WorkerDispatch).
WorkerDispatchExitOnError(r) ==
    /\ r.pc = "busy"
    /\ \E err \in BOOLEAN :
        LET d == Destination(r.job)
        IN  IF err
            THEN /\ WorkerStep(r, IdleWorker("done"))
                 /\ wg' = wg - 1
                 /\ UNCHANGED <<results, ich>>
            ELSE /\ wg' = wg
                 /\ IF d = "none"
                    THEN /\ WorkerStep(r, IdleWorker("recv"))
                         /\ UNCHANGED <<results, ich>>
                    ELSE IF HasRoom(d)
                    THEN /\ Deliver(d, WorkerResult(r.job, err))
                         /\ WorkerStep(r, IdleWorker("recv"))
                    ELSE /\ WorkerStep(r, [pc |-> "send", job |-> r.job, err |-> err,
                                           ch |-> d])
                         /\ UNCHANGED <<results, ich>>
    /\ UNCHANGED <<rest, isRunning, ctxDone, jobs, jobsClosed, resultsClosed, crawlerOpen,
                   syncResults, ppc, spc, calls, out, outClosed, saved, now>>

\* A worker that records the observation itself before it sends the Result (the
\* mutant of WorkerDispatch).
WorkerDispatchSaving(r) ==
    /\ r.pc = "busy"
    /\ \E err \in BOOLEAN :
        LET d == Destination(r.job)
        IN  /\ saved' = IF err THEN saved ELSE saved \cup {r.job}
            /\ IF d = "none"
               THEN /\ WorkerStep(r, IdleWorker("recv"))
                    /\ UNCHANGED <<results, ich>>
               ELSE IF HasRoom(d)
               THEN /\ Deliver(d, WorkerResult(r.job, err))
                    /\ WorkerStep(r, IdleWorker("recv"))
               ELSE /\ WorkerStep(r, [pc |-> "send", job |-> r.job, err |-> err, ch |-> d])
                    /\ UNCHANGED <<results, ich>>
    /\ UNCHANGED <<rest, isRunning, ctxDone, jobs, jobsClosed, resultsClosed, crawlerOpen, wg,
                   syncResults, ppc, spc, calls, out, outClosed, now>>

\* crawler.Collect returns (with data or with an error), the worker builds the
\* Result and dispatches it, lines 641-659.  A send that finds its channel full
\* blocks (pc "send"); on a correlated channel it blocks with the read lock of
\* syncMu held.
WorkerDispatch(r) ==
    /\ r.pc = "busy"
    /\ \E err \in BOOLEAN :
        LET d == Destination(r.job)
        IN  IF d = "none"
            THEN /\ WorkerStep(r, IdleWorker("recv"))
                 /\ UNCHANGED <<results, ich>>
            ELSE IF HasRoom(d)
            THEN /\ Deliver(d, WorkerResult(r.job, err))
                 /\ WorkerStep(r, IdleWorker("recv"))
            ELSE /\ WorkerStep(r, [pc |-> "send", job |-> r.job, err |-> err, ch |-> d])
                 /\ UNCHANGED <<results, ich>>
    /\ UNCHANGED <<rest, isRunning, ctxDone, jobs, jobsClosed, resultsClosed, crawlerOpen, wg,
                   syncResults, ppc, spc, calls, out, outClosed, saved, now>>

\* A blocked send completes once its channel has room.
WorkerSend(r) ==
    /\ r.pc = "send"
    /\ HasRoom(r.ch)
    /\ Deliver(r.ch, WorkerResult(r.job, r.err))
    /\ WorkerStep(r, IdleWorker("recv"))
    /\ UNCHANGED <<rest, isRunning, ctxDone, jobs, jobsClosed, resultsClosed, crawlerOpen, wg,
                   syncResults, ppc, spc, calls, out, outClosed, saved, now>>

\* ------------------------------------------------------- processResults
\* A processor that returns when it sees ctx.Done, leaving what is on the channel
\* (the mutant of ProcessResults).
ProcessResultsNoDrain ==
    /\ ppc = "loop"
    /\ results # <<>> \/ resultsClosed \/ ctxDone
    /\ IF results # <<>> /\ ~ctxDone
       THEN /\ results' = Tail(results)
            /\ saved' = IF Head(results).Error THEN saved
                        ELSE saved \cup {Head(results).Job}
            /\ UNCHANGED <<ppc, wg>>
       ELSE /\ ppc' = "done"
            /\ wg' = wg - 1
            /\ UNCHANGED <<results, saved>>
    /\ UNCHANGED <<rest, isRunning, ctxDone, jobs, jobsClosed, resultsClosed, crawlerOpen,
                   syncResults, wk, spc, calls, chans, now>>

\* Lines 668-711.  The select loop and, after ctx.Done, the range over wp.results
\* treat a Result alike: saveSnapshot when it carries no error, and return only on
\* a receive from the closed, empty channel.  The switch from the one loop to the
\* other changes nothing that is observed, and is not a step of its own.
ProcessResults ==
    /\ ppc = "loop"
    /\ results # <<>> \/ resultsClosed
    /\ IF results # <<>>
       THEN /\ results' = Tail(results)
            /\ saved' = IF Head(results).Error THEN saved
                        ELSE saved \cup {Head(results).Job}
            /\ UNCHANGED <<ppc, wg>>
       ELSE /\ ppc' = "done"
            /\ wg' = wg - 1
            /\ UNCHANGED <<results, saved>>
    /\ UNCHANGED <<rest, isRunning, ctxDone, jobs, jobsClosed, resultsClosed, crawlerOpen,
                   syncResults, wk, spc, calls, chans, now>>

\* --------------------------------------------------------------- callers
\* A caller makes one call: Submit, SubmitAndWait or SubmitBatch.  ret is the value
\* the call returns, and the call has returned when Returned holds (SubmitBatch
\* returns when it has launched its relay goroutine).
Returned(c) ==
    \/ pc[c] = "done"
    \/ op[c] = "batch" /\ pc[c] \in {"relay", "relayExit"}

\* Callers with the same history are interchangeable: CallerOrder[i+1] makes its
\* call after CallerOrder[i] made its own.
MayCall(c) ==
    /\ pc[c] = "idle"
    /\ \A i \in 1..Len(CallerOrder) - 1 :
          CallerOrder[i + 1] = c => pc[CallerOrder[i]] # "idle"

RECURSIVE SumLen(_)
SumLen(S) == IF S = {} THEN 0
             ELSE LET c == CHOOSE x \in S : TRUE
                  IN  Len(cjobs[c]) + SumLen(S \ {c})
\* The jobs the callers may still hand to the pool.
JobsLeft == MaxJobs - SumLen(Callers)

RECURSIVE SeqsUpTo(_)
SeqsUpTo(n) ==
    IF n = 0 THEN {<<>>}
    ELSE LET S == SeqsUpTo(n - 1)
         IN  S \cup {Append(s, c) : s \in {x \in S : Len(x) = n - 1}, c \in Codes}

\* The values time.Now().UnixNano() can return: the clock value of the previous
\* read, or a later one.  now is the value last read; the first read finds 0.
ClockHasBeenRead == \E c \in Callers : \E i \in 1..Len(cjobs[c]) : cjobs[c][i].jobID # NoID
ClockValues ==
    IF ClockHasBeenRead /\ now < MaxNano THEN {now, now + 1} ELSE {now}

\* A fire-and-forget Submit(job), e.g. from CollectAll, lines 774-780.
CallSubmit(c) ==
    /\ MayCall(c)
    /\ JobsLeft >= 1
    /\ \E code \in Codes :
          cjobs' = [cjobs EXCEPT ![c] = <<Job(code, NoID, c, 1)>>]
    /\ op' = [op EXCEPT ![c] = "submit"]
    /\ idx' = [idx EXCEPT ![c] = 1]
    /\ pc' = [pc EXCEPT ![c] = "sub"]
    /\ UNCHANGED <<rest, pool, syncResults, procs, cancelled, ret, chans, saved, now>>

\* SubmitAndWait, lines 516-524: the job id from the code and the clock, the result
\* channel of capacity 1 registered under syncMu.
CallWait(c) ==
    /\ MayCall(c)
    /\ JobsLeft >= 1
    /\ CanLock
    /\ \E code \in Codes, nano \in ClockValues :
          /\ cjobs' = [cjobs EXCEPT ![c] = <<Job(code, SyncKey(code, nano), c, 1)>>]
          /\ syncResults' = TableSet(syncResults, SyncKey(code, nano), c)
          /\ now' = nano
    /\ op' = [op EXCEPT ![c] = "wait"]
    /\ idx' = [idx EXCEPT ![c] = 1]
    /\ pc' = [pc EXCEPT ![c] = "sub"]
    /\ UNCHANGED <<rest, pool, procs, cancelled, ret, chans, saved>>

\* A SubmitBatch that treats no list as empty (the mutant of EmptyBatch).
EmptyBatchNever(codes) == FALSE

\* The test of SubmitBatch, line 554: len(jobs) == 0.
EmptyBatch(codes) == codes = <<>>

\* SubmitBatch, lines 553-566: an empty list gets a closed channel and no error.
CallBatch(c) ==
    /\ MayCall(c)
    /\ \E codes \in SeqsUpTo(JobsLeft) :
          /\ cjobs' = [cjobs EXCEPT ![c] =
                          [i \in 1..Len(codes) |-> Job(codes[i], NoID, c, i)]]
          /\ pc' = [pc EXCEPT ![c] = IF EmptyBatch(codes) THEN "done" ELSE "reg"]
          /\ ret' = [ret EXCEPT ![c] = IF EmptyBatch(codes) THEN "ok" ELSE @]
          /\ outClosed' = [outClosed EXCEPT ![c] = EmptyBatch(codes)]
    /\ op' = [op EXCEPT ![c] = "batch"]
    /\ idx' = [idx EXCEPT ![c] = 1]
    /\ UNCHANGED <<rest, pool, syncResults, procs, cancelled, ich, out, saved, now>>

\* One round of the registration loop, lines 567-575: job i (counted from 0 in the
\* code) gets its id from its code, the clock and i, and the id is registered.
BatchRegister(c) ==
    /\ pc[c] = "reg"
    /\ CanLock
    /\ \E nano \in ClockValues :
          LET i == idx[c]
              key == BatchKey(cjobs[c][i].code, nano, i - 1)
          IN  /\ cjobs' = [cjobs EXCEPT ![c][i].jobID = key]
              /\ syncResults' = TableSet(syncResults, key, c)
              /\ now' = nano
    /\ idx' = [idx EXCEPT ![c] = IF @ = Len(cjobs[c]) THEN 1 ELSE @ + 1]
    /\ pc' = [pc EXCEPT ![c] = IF idx[c] = Len(cjobs[c]) THEN "sub" ELSE "reg"]
    /\ UNCHANGED <<rest, pool, procs, op, cancelled, ret, chans, saved>>

\* What follows a Submit that returned err, by the kind of call: Submit returns it;
\* SubmitAndWait returns it through its deferred delete (534-536); SubmitBatch goes
\* to its cleanup (580-589).
AfterSubmitError(c, err) ==
    /\ ret' = [ret EXCEPT ![c] = err]
    /\ pc' = [pc EXCEPT ![c] = CASE op[c] = "submit" -> "done"
                                 [] op[c] = "wait" -> "exit"
                                 [] OTHER -> "cleanup"]
    /\ UNCHANGED idx

\* What follows a Submit that returned nil: SubmitAndWait waits for its Result;
\* SubmitBatch submits the next job or, after the last, launches the relay and returns.
AfterSubmitOk(c) ==
    /\ ret' = [ret EXCEPT ![c] = IF op[c] = "submit" \/
                                    (op[c] = "batch" /\ idx[c] = Len(cjobs[c]))
                                 THEN "ok" ELSE @]
    /\ pc' = [pc EXCEPT ![c] = CASE op[c] = "submit" -> "done"
                                 [] op[c] = "wait" -> "wait"
                                 [] idx[c] = Len(cjobs[c]) -> "relay"
                                 [] OTHER -> "sub"]
    /\ idx' = [idx EXCEPT ![c] = IF op[c] = "batch" /\ @ < Len(cjobs[c])
                                 THEN @ + 1 ELSE @]

\* A send on the closed wp.jobs panics.  The deferred delete of SubmitAndWait runs
\* while the panic unwinds; SubmitBatch has no deferred function at that point.
AfterSubmitPanic(c) ==
    /\ ret' = [ret EXCEPT ![c] = "panic"]
    /\ pc' = [pc EXCEPT ![c] = IF op[c] = "wait" THEN "exit" ELSE "done"]
    /\ UNCHANGED idx

\* A check that lets every Submit through (the mutant of PoolRunning).
PoolRunningAlways == TRUE

\* The check of Submit, lines 497-502: wp.isRunning, read under wp.mu.
PoolRunning == isRunning

\* Submit, lines 496-513: the isRunning check under wp.mu, then the select.  The
\* send is ready when wp.jobs has room or is closed (and then panics), the second
\* case when the pool context is cancelled, the default is taken when neither is.
\* isRunning is read at the instant of the select: between the check and the
\* select only Stop's last statement could reset it (see IsRunningStable).
Submit(c) ==
    /\ pc[c] = "sub"
    /\ \/ /\ ~PoolRunning
          /\ AfterSubmitError(c, "NotRunning")
          /\ UNCHANGED jobs
       \/ /\ PoolRunning
          /\ jobsClosed \/ Len(jobs) < QueueSize
          /\ IF jobsClosed
             THEN AfterSubmitPanic(c) /\ UNCHANGED jobs
             ELSE AfterSubmitOk(c) /\ jobs' = Append(jobs, cjobs[c][idx[c]])
       \/ /\ PoolRunning
          /\ ctxDone
          /\ AfterSubmitError(c, "ShuttingDown")
          /\ UNCHANGED jobs
       \/ /\ PoolRunning
          /\ ~jobsClosed /\ Len(jobs) >= QueueSize /\ ~ctxDone
          /\ AfterSubmitError(c, "QueueFull")
          /\ UNCHANGED jobs
    /\ UNCHANGED <<rest, isRunning, ctxDone, jobsClosed, results, resultsClosed, crawlerOpen,
                   wg, syncResults, procs, op, cjobs, cancelled, chans, saved, now>>

\* SubmitAndWait, lines 539-547: the Result from the result channel, or ctx.Done.
WaitResult(c) ==
    /\ pc[c] = "wait"
    /\ \/ /\ ich[c] # <<>>
          /\ out' = [out EXCEPT ![c] = <<Head(ich[c])>>]
          /\ ich' = [ich EXCEPT ![c] = Tail(@)]
          /\ ret' = [ret EXCEPT ![c] = IF Head(ich[c]).Error THEN "fetchErr" ELSE "data"]
       \/ /\ cancelled[c]
          /\ ret' = [ret EXCEPT ![c] = "ctxErr"]
          /\ UNCHANGED <<out, ich>>
    /\ pc' = [pc EXCEPT ![c] = "exit"]
    /\ UNCHANGED <<rest, pool, syncResults, procs, op, cjobs, idx, cancelled,
                   outClosed, saved, now>>

\* A cleanup that is skipped when the wait ended on ctx.Done (the mutant of
\* WaitExitKeys).
WaitExitKeysUnlessCancelled(c) == IF ret[c] = "ctxErr" THEN {} ELSE KeysOf(c, 1)

\* The ids that SubmitAndWait's deferred function deletes, lines 527-531.
WaitExitKeys(c) == KeysOf(c, 1)

\* SubmitAndWait returns: its deferred function deletes the id under syncMu.
WaitExit(c) ==
    /\ pc[c] = "exit"
    /\ CanLock
    /\ syncResults' = TableDelete(syncResults, WaitExitKeys(c))
    /\ pc' = [pc EXCEPT ![c] = "done"]
    /\ UNCHANGED <<rest, pool, procs, op, cjobs, idx, cancelled, ret, chans, saved, now>>

\* The ids that SubmitBatch deletes when Submit fails, lines 582-586:
\* jobIDs[:submitted], with idx - 1 jobs submitted so far.
CleanupKeys(c) == KeysOf(c, idx[c] - 1)

\* SubmitBatch after a failed Submit, lines 581-588: delete, close(outputChan),
\* return the error.
BatchCleanup(c) ==
    /\ pc[c] = "cleanup"
    /\ CanLock
    /\ syncResults' = TableDelete(syncResults, CleanupKeys(c))
    /\ outClosed' = [outClosed EXCEPT ![c] = TRUE]
    /\ pc' = [pc EXCEPT ![c] = "done"]
    /\ UNCHANGED <<rest, pool, procs, op, cjobs, idx, cancelled, ret, ich, out, saved, now>>

\* The relay goroutine of SubmitBatch, lines 604-613: forward a Result from the
\* internal channel to outputChan (which has room for all of them), or see ctx.Done.
Relay(c) ==
    /\ pc[c] = "relay"
    /\ \/ /\ ich[c] # <<>>
          /\ out' = [out EXCEPT ![c] = Append(@, Head(ich[c]))]
          /\ ich' = [ich EXCEPT ![c] = Tail(@)]
          /\ pc' = [pc EXCEPT ![c] = IF Len(out[c]) + 1 < Len(cjobs[c])
                                     THEN "relay" ELSE "relayExit"]
       \/ /\ cancelled[c]
          /\ pc' = [pc EXCEPT ![c] = "relayExit"]
          /\ UNCHANGED <<out, ich>>
    /\ UNCHANGED <<rest, pool, syncResults, procs, op, cjobs, idx, cancelled, ret,
                   outClosed, saved, now>>

\* The ids that the relay's deferred function deletes, lines 596-602: all jobIDs.
RelayExitKeys(c) == KeysOf(c, Len(cjobs[c]))

\* The relay goroutine returns, lines 595-602: delete under syncMu, then
\* close(outputChan).
RelayExit(c) ==
    /\ pc[c] = "relayExit"
    /\ CanLock
    /\ syncResults' = TableDelete(syncResults, RelayExitKeys(c))
    /\ outClosed' = [outClosed EXCEPT ![c] = TRUE]
    /\ pc' = [pc EXCEPT ![c] = "done"]
    /\ UNCHANGED <<rest, pool, procs, op, cjobs, idx, cancelled, ret, ich, out, saved, now>>

\* The context of a SubmitAndWait or SubmitBatch call is cancelled or times out.
\* The call reads ctx.Done only in the select of its wait (539-547, 606-612): a
\* cancellation before that select is the same as one when it is entered.
Cancel(c) ==
    /\ pc[c] \in {"wait", "relay"}
    /\ ~cancelled[c]
    /\ cancelled' = [cancelled EXCEPT ![c] = TRUE]
    /\ UNCHANGED <<rest, pool, syncResults, procs, op, pc, cjobs, idx, ret, chans, saved, now>>

\* ------------------------------------------------------------------ spec
Next ==
    \/ Start
    \/ Stop
    \/ \E r \in BagToSet(wk) : WorkerRecv(r) \/ WorkerDispatch(r) \/ WorkerSend(r)
    \/ ProcessResults
    \/ \E c \in Callers :
          \/ CallSubmit(c) \/ CallWait(c) \/ CallBatch(c) \/ BatchRegister(c)
          \/ Submit(c)
          \/ WaitResult(c) \/ WaitExit(c)
          \/ BatchCleanup(c) \/ Relay(c) \/ RelayExit(c)
          \/ Cancel(c)

Spec == Init /\ [][Next]_vars

\* The pool with the progress that the Go runtime and the timers give: a goroutine
\* that can take a step takes it (workers, the result processor, the relay of a
\* batch and the deferred functions of a call), and the deadline of a call's
\* context (scheduler.go:72) passes.  Calls, Start and Stop come when their callers
\* please, or never.
Progress ==
    /\ WF_vars(\E r \in BagToSet(wk) : WorkerRecv(r))
    /\ WF_vars(\E r \in BagToSet(wk) : WorkerDispatch(r))
    /\ WF_vars(\E r \in BagToSet(wk) : WorkerSend(r))
    /\ WF_vars(ProcessResults)
    /\ \A c \in Callers :
          /\ WF_vars(BatchRegister(c)) /\ WF_vars(Submit(c))
          /\ WF_vars(BatchCleanup(c))
          /\ WF_vars(Relay(c)) /\ WF_vars(RelayExit(c))
          /\ WF_vars(WaitResult(c)) /\ WF_vars(WaitExit(c))
          /\ WF_vars(Cancel(c))
SpecLive == Spec /\ Progress

\* The pool with two Stop calls.
NextStop == Next \/ Stop2
SpecStop == Init /\ [][NextStop]_vars

\* ------------------------------------------------------------ scheduler
\* The scheduler sees the pool through the BatchSubmitter interface (lines 21-24):
\* SubmitBatch returns an error, or a channel from which Results arrive until it is
\* closed.  The buffer of that channel is not modelled: a Result that waits in it has
\* no effect until the run receives it.
InitRuns ==
    /\ InitPool
    /\ \E n \in 0..MaxProducts, recipients \in 0..MaxRecipients :
          \E stored \in [1..n -> Statuses \cup {""}] :
              InitSched(n, recipients, stored)

\* ListUniqueProductsToCollect (service.go:1523-1525, products.sql:306-309): one row
\* for each product code, ordered by code.
productsToCollect == [p \in DOMAIN lifecycle |-> p]

\* The nil *LifecycleStatusChange, and a change (dto.go:206-210).
NoChange == [ProductCode |-> <<>>, OldStatus |-> "", NewStatus |-> ""]
LifecycleStatusChange(code, old, new) ==
    [ProductCode |-> code, OldStatus |-> old, NewStatus |-> new]

\* SaveCrawlResult(job, data), service.go:1528-1602, for the product p of the job
\* and data.Status = status: what it returns and what it leaves stored.  The snapshot
\* insert fails (snapshotErr) and nothing else is done; else, when a status was
\* observed, the stored status is read ("" when the read fails, findErr) and then
\* overwritten (unless the update fails, updateErr; its COALESCE keeps the stored
\* status when none was observed), and a change is returned when the two differ.
SaveCrawlResult(p, status, snapshotErr, findErr, updateErr) ==
    LET oldStatus == IF findErr THEN "" ELSE lifecycle[p]
    IN  [err |-> snapshotErr,
         change |-> IF ~snapshotErr /\ status # "" /\ oldStatus # status
                    THEN LifecycleStatusChange(ProductCode(p), oldStatus, status)
                    ELSE NoChange,
         stored |-> IF ~snapshotErr /\ status # "" /\ ~updateErr
                    THEN [lifecycle EXCEPT ![p] = status]
                    ELSE lifecycle]

\* The rows of the two bodies of the status-change email, lines 181-185 and 211-217:
\* one for each change, in the order of the list.
EmailRows(changes) ==
    [i \in 1..Len(changes) |->
        <<changes[i].ProductCode, changes[i].OldStatus, changes[i].NewStatus>>]

\* email.Send(subject, text, html, recipients) is called and succeeds or fails.
Email(kind, rows, ok) == [kind |-> kind, text |-> rows, html |-> rows, ok |-> ok]

\* A notifyError that skips the recipient check of lines 255-257 (the mutant of
\* notifyError).
notifyErrorAlways(r, ok) ==
    sends' = [sends EXCEPT ![r] = Append(@, Email("alert", <<>>, ok))]

\* notifyError, lines 252-290: nothing without alert recipients, else one Send, whose
\* error is logged.
notifyError(r, ok) ==
    sends' = [sends EXCEPT ![r] = IF alertRecipients = 0 THEN @
                                  ELSE Append(@, Email("alert", <<>>, ok))]

\* A send for every change of the list (the mutant of sendStatusChangeEmail).
sendStatusChangeEmailEach(r, changes, ok) ==
    sends' = [sends EXCEPT ![r] =
                 @ \o [i \in 1..Len(changes) |->
                          Email("status", EmailRows(<<changes[i]>>), ok)]]

\* A send that is tried again when it fails (the mutant of sendStatusChangeEmail).
sendStatusChangeEmailRetry(r, changes, ok) ==
    sends' = [sends EXCEPT ![r] =
                 IF changes = <<>> THEN @
                 ELSE IF ok THEN Append(@, Email("status", EmailRows(changes), ok))
                 ELSE @ \o <<Email("status", EmailRows(changes), FALSE),
                             Email("status", EmailRows(changes), TRUE)>>]

\* sendStatusChangeEmail, lines 171-249: nothing for an empty list, else one Send to
\* the fixed recipients, whose error is logged.
sendStatusChangeEmail(r, changes, ok) ==
    sends' = [sends EXCEPT ![r] = IF changes = <<>> THEN @
                                  ELSE Append(@, Email("status", EmailRows(changes), ok))]

\* A run begins when cron dispatches it (the run before it has returned) or, the
\* manual one, when the goroutine that RunNow started is scheduled.
MayRun(r) == rpc[r] = (IF r = ManualRun THEN "go" ELSE "idle")

\* runLifecycleUpdateJob has returned, and cron is to dispatch the next run: the
\* local variables of the run that ended are gone, and so is what was recorded of
\* it; the stored statuses and the configuration stay.
RunReturn(r) ==
    /\ rpc[r] = "done"
    /\ rpc' = [rpc EXCEPT ![r] = "idle"]
    /\ outcome' = [outcome EXCEPT ![r] = "none"]
    /\ got' = [got EXCEPT ![r] = <<>>]
    /\ saves' = [saves EXCEPT ![r] = <<>>]
    /\ successCount' = [successCount EXCEPT ![r] = 0]
    /\ errorCount' = [errorCount EXCEPT ![r] = 0]
    /\ statusChanges' = [statusChanges EXCEPT ![r] = <<>>]
    /\ sends' = [sends EXCEPT ![r] = <<>>]
    /\ UNCHANGED <<pool, syncResults, procs, calls, chans, saved, now, spc2,
                   alertRecipients, lifecycle>>

\* runLifecycleUpdateJob, lines 68-89: the listing fails (alert, return), lists
\* nothing (return), or lists the products.
RunList(r) ==
    /\ MayRun(r)
    /\ \E listErr, ok \in BOOLEAN :
          IF listErr
          THEN /\ notifyError(r, ok)
               /\ rpc' = [rpc EXCEPT ![r] = "done"]
               /\ outcome' = [outcome EXCEPT ![r] = "listErr"]
          ELSE /\ rpc' = [rpc EXCEPT ![r] =
                             IF productsToCollect = <<>> THEN "done" ELSE "submit"]
               /\ outcome' = [outcome EXCEPT ![r] =
                                 IF productsToCollect = <<>> THEN "noProducts" ELSE @]
               /\ UNCHANGED sends
    /\ UNCHANGED <<pool, syncResults, procs, calls, chans, saved, now, spc2,
                   alertRecipients, lifecycle, got, saves, successCount, errorCount,
                   statusChanges>>

\* Lines 91-106: the jobs are built and handed to SubmitBatch, which fails (alert,
\* return) or returns the channel.
RunSubmit(r) ==
    /\ rpc[r] = "submit"
    /\ \E submitErr, ok \in BOOLEAN :
          IF submitErr
          THEN /\ notifyError(r, ok)
               /\ rpc' = [rpc EXCEPT ![r] = "done"]
               /\ outcome' = [outcome EXCEPT ![r] = "submitErr"]
          ELSE /\ rpc' = [rpc EXCEPT ![r] = "loop"]
               /\ UNCHANGED <<outcome, sends>>
    /\ UNCHANGED <<pool, syncResults, procs, calls, chans, saved, now, spc2,
                   alertRecipients, lifecycle, got, saves, successCount, errorCount,
                   statusChanges>>

\* A save whose error is not counted (the mutant of CountSaveError).
CountSaveErrorNever(saveErr) == 0

\* Lines 124-131: a failed save adds one to errorCount.
CountSaveError(saveErr) == IF saveErr THEN 1 ELSE 0

\* A loop that a failed save ends (the mutant of AfterSave).
AfterSaveAbort(saveErr) == IF saveErr THEN "done" ELSE "loop"

\* Lines 124-131 and 143-148: after a save, failed or not, the loop goes on.
AfterSave(saveErr) == "loop"

\* One round of the loop over resultsChan, lines 112-148: a Result arrives (the
\* channel has room for len(jobs) of them); with an error it is counted, else it is
\* saved, and the save's error is counted, or its change is kept and the success
\* counted.  The Result is any that the pool may put on the channel of a batch:
\* of any listed product, and of one that the run has had a Result of already,
\* since the channel registered under a batch's keys also gets the Results of
\* another batch with the same keys (BatchRegister).
RunReceive(r) ==
    /\ rpc[r] = "loop"
    /\ Len(got[r]) < Len(productsToCollect)
    /\ \E p \in DOMAIN lifecycle, fetchErr \in BOOLEAN, status \in Statuses \cup {""} :
          /\ got' = [got EXCEPT ![r] = Append(@, [Job |-> p, Error |-> fetchErr])]
          /\ IF fetchErr
             THEN /\ status = ""
                  /\ errorCount' = [errorCount EXCEPT ![r] = @ + 1]
                  /\ UNCHANGED <<rpc, saves, lifecycle, statusChanges, successCount>>
             ELSE \E snapshotErr, findErr, updateErr \in BOOLEAN :
                     LET save == SaveCrawlResult(p, status, snapshotErr, findErr, updateErr)
                     IN  /\ rpc' = [rpc EXCEPT ![r] = AfterSave(save.err)]
                         /\ saves' = [saves EXCEPT ![r] =
                                         Append(@, [Job |-> p, err |-> save.err,
                                                    change |-> save.change])]
                         /\ lifecycle' = save.stored
                         /\ errorCount' = [errorCount EXCEPT ![r] =
                                              @ + CountSaveError(save.err)]
                         /\ successCount' = [successCount EXCEPT ![r] =
                                                IF save.err THEN @ ELSE @ + 1]
                         /\ statusChanges' = [statusChanges EXCEPT ![r] =
                                                 IF save.err \/ save.change = NoChange
                                                 THEN @ ELSE Append(@, save.change)]
    /\ UNCHANGED <<pool, syncResults, procs, calls, chans, saved, now, spc2,
                   alertRecipients, outcome, sends>>

\* The loop ends when resultsChan is closed and empty (after all the Results, or
\* after fewer when the batch was cut short); lines 150-162: the changes, if any,
\* are sent, and the run returns.
RunFinish(r) ==
    /\ rpc[r] = "loop"
    /\ \E ok \in BOOLEAN : sendStatusChangeEmail(r, statusChanges[r], ok)
    /\ rpc' = [rpc EXCEPT ![r] = "done"]
    /\ outcome' = [outcome EXCEPT ![r] = "completed"]
    /\ UNCHANGED <<pool, syncResults, procs, calls, chans, saved, now, spc2,
                   alertRecipients, lifecycle, got, saves, successCount, errorCount,
                   statusChanges>>

\* The runs that cron dispatches, one after the other; RunNow is not called.
NextRuns ==
    \E r \in {CronRun} :
        RunList(r) \/ RunSubmit(r) \/ RunReceive(r) \/ RunFinish(r) \/ RunReturn(r)
SpecRuns == InitRuns /\ [][NextRuns]_vars

\* A RunNow that starts nothing while the cron run is in progress (the mutant of
\* RunNow).
RunNowSingleFlight ==
    /\ rpc[ManualRun] = "idle"
    /\ rpc[CronRun] \in {"idle", "done"}
    /\ rpc' = [rpc EXCEPT ![ManualRun] = "go"]
    /\ UNCHANGED <<pool, syncResults, procs, calls, chans, saved, now, spc2,
                   alertRecipients, lifecycle, outcome, got, saves, successCount,
                   errorCount, statusChanges, sends>>

\* RunNow, lines 166-168: "go s.runLifecycleUpdateJob()" and return; nothing is
\* looked at before the goroutine is started.  It is called once.
RunNow ==
    /\ rpc[ManualRun] = "idle"
    /\ rpc' = [rpc EXCEPT ![ManualRun] = "go"]
    /\ UNCHANGED <<pool, syncResults, procs, calls, chans, saved, now, spc2,
                   alertRecipients, lifecycle, outcome, got, saves, successCount,
                   errorCount, statusChanges, sends>>

\* One run dispatched by cron and one started by RunNow, each over the products
\* it lists, with the stored statuses shared.
NextNow ==
    \/ RunNow
    \/ \E r \in Runs : RunList(r) \/ RunSubmit(r) \/ RunReceive(r) \/ RunFinish(r)
InitNow ==
    /\ InitPool
    /\ \E n \in 0..MaxNowProducts :
          \E stored \in [1..n -> Statuses \cup {""}] :
              InitSched(n, MaxRecipients, stored)
SpecNow == InitNow /\ [][NextNow]_vars

\* The reading of isRunning at the instant of the select in Submit rests on this:
\* once set, isRunning is not reset (Stop's last statement is never reached).
IsRunningStable == [][isRunning => isRunning']_vars

\* ---------------------------------------------------------------- claims
Correlated(c) == op[c] \in {"wait", "batch"}
SubmitErrors == {"NotRunning", "QueueFull", "ShuttingDown"}
\* Caller c takes a step of Submit: its select ends the call or moves to the next job.
SubmitStep(c) == pc[c] = "sub" /\ (pc'[c] # "sub" \/ idx'[c] # idx[c])
\* A worker returns from its loop.
WorkerExits == CopiesIn(IdleWorker("done"), wk') > CopiesIn(IdleWorker("done"), wk)
\* The jobs whose fetch is under way: received by a worker, Result not yet dispatched.
InFlightJobs == {r.job : r \in {x \in BagToSet(wk) : x.pc = "busy"}}
\* A worker is blocked for ever in a send on the channel of a call that reads it no more.
SenderStuck ==
    \E r \in BagToSet(wk) :
        r.pc = "send" /\ r.ch \in Callers /\ pc[r.ch] \notin {"sub", "wait", "relay"}

\* C1: a SubmitBatch of N >= 1 jobs that was accepted by a running pool, with its
\* context not cancelled and the pool not stopped, delivers on its output channel
\* Results of its own N jobs only, each job at most once, and has delivered all N
\* of them when the channel is closed.
C1_BatchDeliversOwnJobs ==
    \A c \in Callers :
        (op[c] = "batch" /\ ret[c] = "ok" /\ cjobs[c] # <<>> /\ ~cancelled[c] /\ ~ctxDone)
        => /\ \A i \in 1..Len(out[c]) : out[c][i].Job.owner = c
           /\ \A i, k \in 1..Len(out[c]) : i # k => out[c][i].Job # out[c][k].Job
           /\ outClosed[c] => Len(out[c]) = Len(cjobs[c])

\* C2: while the pool is running and not stopped, the Result of a job that carries a
\* correlation key and whose caller is not cancelled is delivered to a channel: the
\* worker that dispatches it finds a channel registered for its key.
C2_ResultHasDestination ==
    [][\A j \in InFlightJobs :
          (j \notin InFlightJobs' /\ j.jobID # NoID /\ ~cancelled[j.owner] /\ ~ctxDone)
          => Destination(j) # "none"]_vars

\* C3: a SubmitBatch whose context is cancelled gets its output channel closed
\* without deadlock: its relay goroutine, on its way out, never waits for the lock
\* of the correlation table behind a worker that is blocked for ever.
C3_CancelledBatchCloses ==
    \A c \in Callers :
        (op[c] = "batch" /\ cancelled[c] /\ pc[c] = "relayExit") => ~SenderStuck

\* C4: when SubmitBatch has returned an error because a Submit failed, the
\* correlation table contains none of the keys registered for that batch.
C4_FailedBatchUnregistersAll ==
    \A c \in Callers :
        (op[c] = "batch" /\ pc[c] = "done" /\ ret[c] \in SubmitErrors)
        => \A i \in 1..Len(cjobs[c]) : ~Registered(cjobs[c][i].jobID)

\* C5: Stop never waits for ever on a routine that itself waits for a step Stop
\* performs later: it is not in wg.Wait() with all workers gone while the result
\* processor, still counted by the wait group, sits at the empty result channel
\* that only Stop closes.
C5_StopNoCircularWait ==
    ~(spc = "wait" /\ wg = 1 /\ ppc = "loop" /\ results = <<>> /\ ~resultsClosed)

\* C6: a worker exits only when the intake queue is closed and empty.
C6_WorkerExitsOnlyWhenDrained ==
    [][WorkerExits => (jobsClosed /\ jobs = <<>>)]_vars

\* C7: a Submit whose select runs after Stop has begun returns the shutting-down (or
\* not-running) error: it does not enqueue its job and does not panic.
C7_SubmitAfterStopRejected ==
    [][\A c \in Callers :
          (SubmitStep(c) /\ ctxDone)
          => (ret'[c] \in {"ShuttingDown", "NotRunning"} /\ jobs' = jobs)]_vars

\* C8: every Result a caller receives, on the output channel of its SubmitBatch or
\* as the result of its SubmitAndWait, belongs to a job that this caller submitted.
C8_NoCrossDelivery ==
    \A c \in Callers :
        Correlated(c) => \A i \in 1..Len(out[c]) : out[c][i].Job.owner = c

\* C9: at the step at which SubmitAndWait returns (with data, with a fetch error,
\* with a submission error, or on ctx.Done), the correlation table does not contain
\* the key this call registered.
C9_WaitDeregistersOnReturn ==
    [][\A c \in Callers :
          (op[c] = "wait" /\ pc[c] # "done" /\ pc'[c] = "done")
          => cjobs[c][1].jobID \notin DOMAIN syncResults']_vars

\* Two SubmitAndWait calls have returned, one with data and one on ctx.Done, and
\* none of their keys is registered.
C9_Witness ==
    /\ \A c \in Callers : op[c] = "wait" /\ pc[c] = "done"
    /\ \E c \in Callers : ret[c] = "data"
    /\ \E c \in Callers : ret[c] = "ctxErr"
    /\ syncResults = <<>>

\* C10: a Submit on a pool that was never started returns the not-running error,
\* and a Submit that returns an error (not running, queue full, shutting down)
\* leaves the intake queue as it was; a Submit never blocks.
C10_SubmitErrorFrame ==
    /\ [](\A c \in Callers : pc[c] = "sub" => ENABLED Submit(c))
    /\ [][\A c \in Callers :
            SubmitStep(c)
            => /\ ~isRunning => ret'[c] = "NotRunning"
               /\ ret'[c] \in SubmitErrors => jobs' = jobs]_vars

\* A Submit on the never-started pool has returned the not-running error, a later
\* one on the started pool the shutting-down error, and the intake queue is empty.
C10_Witness ==
    /\ isRunning
    /\ \E c \in Callers : op[c] = "submit" /\ pc[c] = "done" /\ ret[c] = "NotRunning"
    /\ \E c \in Callers : op[c] = "submit" /\ pc[c] = "done" /\ ret[c] = "ShuttingDown"
    /\ jobs = <<>>

\* C11: Stop is idempotent: no Stop call, be it the only one, a second one or one on a
\* pool that is not running, closes the intake queue or the result channel when it
\* is closed already, which is a panic; and a Stop on a pool that is not running
\* returns leaving the pool as it was.
C11_StopIdempotent ==
    /\ spc # "panic" /\ spc2 # "panic"
    /\ (spc = "done" /\ spc2 = "idle") => (~ctxDone /\ ~jobsClosed /\ ~resultsClosed)

\* The goroutines that Start has launched and that have not returned.
WorkersLaunched == BagCardinality(wk)
WorkersRunning == WorkersLaunched - CopiesIn(IdleWorker("done"), wk)
ProcessorsRunning == IF ppc = "loop" THEN 1 ELSE 0

\* C12: Start is idempotent: a running pool has had exactly NumWorkers workers and
\* one result processor launched however often Start was called (the wait group
\* counts exactly those of them that have not returned), and a pool that is not
\* running, after a failed Start included, has no goroutine and no crawler session.
C12_StartIdempotent ==
    /\ WorkersLaunched = (IF isRunning THEN NumWorkers ELSE 0)
    /\ (ppc # "off") = isRunning
    /\ wg = WorkersRunning + ProcessorsRunning
    /\ ~isRunning => (~crawlerOpen /\ wg = 0)

\* The pool is running, all its workers are at work on a job, and the processor is
\* in its loop.
C12_Witness ==
    /\ isRunning /\ ppc = "loop"
    /\ \A r \in BagToSet(wk) : r.pc = "busy"
    /\ WorkersLaunched = NumWorkers

\* C13: a SubmitAndWait whose context is not cancelled and that returns a fetch
\* outcome returns the outcome of the fetch of its own job: the data when that fetch
\* succeeded, the error (and no data) when it failed.
C13_WaitReturnsOwnFetch ==
    \A c \in Callers :
        (op[c] = "wait" /\ ret[c] \in {"data", "fetchErr"} /\ ~cancelled[c])
        => out[c] = <<WorkerResult(cjobs[c][1], ret[c] = "fetchErr")>>

\* C14: SubmitBatch with an empty job list returns no error and a closed channel
\* that yields no Result, whatever the state of the pool; the call registers no
\* correlation key and enqueues no job.
C14_EmptyBatch ==
    /\ [](\A c \in Callers :
            (op[c] = "batch" /\ cjobs[c] = <<>>)
            => (pc[c] = "done" /\ ret[c] = "ok" /\ outClosed[c]
                /\ out[c] = <<>> /\ ich[c] = <<>>))
    /\ [][\A c \in Callers :
            (op[c] = "none" /\ op'[c] = "batch" /\ cjobs'[c] = <<>>)
            => (syncResults' = syncResults /\ jobs' = jobs /\ Returned(c)')]_vars

\* An empty SubmitBatch has returned on a pool that is shutting down with its
\* intake queue closed, while a key of another call is registered.
C14_Witness ==
    /\ \E c \in Callers : op[c] = "batch" /\ cjobs[c] = <<>> /\ pc[c] = "done"
    /\ jobsClosed
    /\ syncResults # <<>>

\* ------------------------------------------------------ scheduler claims
IsStatusEmail(e) == e.kind = "status"
IsAlertEmail(e) == e.kind = "alert"
StatusSends(r) == SelectSeq(sends[r], IsStatusEmail)
AlertSends(r) == SelectSeq(sends[r], IsAlertEmail)
HasNoError(g) == ~g.Error
HasError(g) == g.Error
SaveFailed(x) == x.err
SaveChanged(x) == ~x.err /\ x.change # NoChange
\* The jobs of the Results that run r received without an error, in that order.
ReceivedOk(r) ==
    LET ok == SelectSeq(got[r], HasNoError) IN [i \in 1..Len(ok) |-> ok[i].Job]
\* The changes that the saves of run r returned, in the order of the saves.
ReturnedChanges(r) ==
    LET ch == SelectSeq(saves[r], SaveChanged) IN [i \in 1..Len(ch) |-> ch[i].change]
Aborted(r) == outcome[r] \in {"listErr", "submitErr"}

\* C15: in a scheduler run SaveCrawlResult is called exactly once for each Result
\* received without an error, in the order received, and never for a Result with an
\* error; the success and error counters add up to the number of Results received,
\* the Results with an error being among those counted as failed.
C15_SavesAndCounters ==
    \A r \in Runs :
        /\ [i \in 1..Len(saves[r]) |-> saves[r][i].Job] = ReceivedOk(r)
        /\ successCount[r] + errorCount[r] = Len(got[r])
        /\ errorCount[r] >= Len(SelectSeq(got[r], HasError))

\* A run has received a Result with an error and then one without, saved the
\* second only, and has ended.
C15_Witness ==
    \E r \in Runs :
        /\ outcome[r] = "completed"
        /\ Len(got[r]) = 2 /\ got[r][1].Error /\ ~got[r][2].Error
        /\ Len(saves[r]) = 1 /\ successCount[r] = 1 /\ errorCount[r] = 1

\* C16: a run that has ended has sent exactly one status-change notification if
\* at least one of its saves returned a change, and none otherwise; a run that has
\* not ended has sent none.
C16_OneNotification ==
    \A r \in Runs :
        Len(StatusSends(r)) =
            (IF rpc[r] = "done" /\ ReturnedChanges(r) # <<>> THEN 1 ELSE 0)

\* A run has ended with two changes returned by its saves and one notification.
C16_Witness ==
    \E r \in Runs :
        rpc[r] = "done" /\ Len(ReturnedChanges(r)) = 2 /\ Len(StatusSends(r)) = 1

\* C17: a run in which the listing or SubmitBatch failed has ended with no Result
\* received, no save and no status-change notification, and with exactly one
\* alert send attempted when alert recipients are configured and none when not,
\* whether or not that send succeeded; the run that follows starts with nothing
\* left of it.
C17_AbortedRun ==
    \A r \in Runs :
        /\ Aborted(r)
           => /\ rpc[r] = "done"
              /\ got[r] = <<>> /\ saves[r] = <<>> /\ StatusSends(r) = <<>>
              /\ Len(AlertSends(r)) = (IF alertRecipients > 0 THEN 1 ELSE 0)
              /\ Len(sends[r]) = Len(AlertSends(r))
        /\ rpc[r] = "idle"
           => /\ outcome[r] = "none" /\ got[r] = <<>> /\ saves[r] = <<>>
              /\ successCount[r] = 0 /\ errorCount[r] = 0

\* SubmitBatch failed in a run with alert recipients configured, and the one alert
\* send failed.
C17_Witness ==
    \E r \in Runs :
        /\ outcome[r] = "submitErr" /\ alertRecipients > 0
        /\ Len(sends[r]) = 1 /\ ~sends[r][1].ok

\* C18: the two bodies of the status-change notification of a run list the changes
\* that the saves of that run returned, in the order in which they were returned,
\* each with its code, old status and new status, and every changed product
\* appears in one row only.
C18_NotificationRows ==
    \A r \in Runs :
        \A i \in 1..Len(StatusSends(r)) :
            LET rows == [k \in 1..Len(ReturnedChanges(r)) |->
                            <<ReturnedChanges(r)[k].ProductCode,
                              ReturnedChanges(r)[k].OldStatus,
                              ReturnedChanges(r)[k].NewStatus>>]
            IN  /\ StatusSends(r)[i].text = rows /\ StatusSends(r)[i].html = rows
                /\ \A a, b \in 1..Len(rows) : rows[a][1] = rows[b][1] => a = b

\* C19: a save that returns an error is counted as failed and adds no change to
\* the list of the run, and the run goes on: it does not end before its result
\* stream does, and when it has ended the changes of its other saves have been
\* notified.
C19_SaveErrorContinues ==
    \A r \in Runs :
        /\ errorCount[r] =
              Len(SelectSeq(got[r], HasError)) + Len(SelectSeq(saves[r], SaveFailed))
        /\ statusChanges[r] = ReturnedChanges(r)
        /\ (rpc[r] = "done" /\ saves[r] # <<>>) => outcome[r] = "completed"
        /\ (rpc[r] = "done" /\ statusChanges[r] # <<>>)
           => \E i \in 1..Len(sends[r]) :
                 IsStatusEmail(sends[r][i]) /\ Len(sends[r][i].text) = Len(statusChanges[r])

\* A run whose first save failed has made a second save, which returned a change,
\* and has notified that change.
C19_Witness ==
    \E r \in Runs :
        /\ rpc[r] = "done"
        /\ Len(saves[r]) = 2 /\ saves[r][1].err /\ SaveChanged(saves[r][2])
        /\ Len(StatusSends(r)) = 1

\* C20: the status-change notification is attempted at most once in a run: when
\* the send has failed the run has ended normally with that one attempt, and the
\* next run starts with an empty list of changes.
C20_AtMostOnce ==
    \A r \in Runs :
        /\ Len(StatusSends(r)) <= 1
        /\ (\E i \in 1..Len(sends[r]) : IsStatusEmail(sends[r][i]) /\ ~sends[r][i].ok)
           => (rpc[r] = "done" /\ outcome[r] = "completed" /\ Len(sends[r]) = 1)
        /\ rpc[r] = "idle" => (statusChanges[r] = <<>> /\ sends[r] = <<>>)

\* The status-change send of a run has failed and the run has ended.
C20_Witness ==
    \E r \in Runs :
        /\ outcome[r] = "completed"
        /\ Len(StatusSends(r)) = 1 /\ ~StatusSends(r)[1].ok

\* A step of run r in which SaveCrawlResult is called, and what that call returned.
Saves(r) == Len(saves'[r]) = Len(saves[r]) + 1
LastSave(r) == saves'[r][Len(saves'[r])]

\* C21: a change that SaveCrawlResult returns has as old status the status that was
\* stored for the product when the call began and as new status an observed status
\* that is not empty and differs from that stored status; with a snapshot that
\* cannot be created the call returns its error and no change.
C21_ChangeIsStoredToObserved ==
    [][\A r \in Runs :
          Saves(r)
          => /\ LastSave(r).err => LastSave(r).change = NoChange
             /\ LastSave(r).change # NoChange
                => /\ LastSave(r).change.ProductCode = ProductCode(LastSave(r).Job)
                   /\ LastSave(r).change.OldStatus = lifecycle[LastSave(r).Job]
                   /\ LastSave(r).change.NewStatus # ""
                   /\ LastSave(r).change.NewStatus # lifecycle[LastSave(r).Job]]_vars

\* C25: when SaveCrawlResult returns a change to a new status, that status is the
\* stored status of the product when the call returns.
C25_StoredIsNewStatus ==
    [][\A r \in Runs :
          (Saves(r) /\ LastSave(r).change # NoChange)
          => lifecycle'[LastSave(r).Job] = LastSave(r).change.NewStatus]_vars

\* C22: the delivery of a Result to a correlated channel never blocks: no more
\* Results are sent to such a channel than it has room for (one for SubmitAndWait,
\* the number of jobs for a batch), so that no worker waits, with the read lock
\* of the correlation table held, for room in it.
C22_DeliveryNeverBlocks ==
    \A r \in BagToSet(wk) : r.pc = "send" => r.ch = "shared"

\* C23: when SubmitBatch has returned an error, none of the jobs of the batch is in
\* the intake queue and none is being fetched.
C23_FailedBatchLeavesNoJob ==
    \A c \in Callers :
        (op[c] = "batch" /\ pc[c] = "done" /\ ret[c] \in SubmitErrors)
        => /\ \A i \in 1..Len(jobs) : jobs[i].owner # c
           /\ \A j \in InFlightJobs : j.owner # c

\* C24: registering a correlation key never overwrites an entry of the correlation
\* table: a key that is in the table keeps its channel for as long as it stays
\* there, whatever other calls register.
C24_RegisterNeverOverwrites ==
    [][\A k \in DOMAIN syncResults \cap DOMAIN syncResults' :
          syncResults'[k] = syncResults[k]]_vars

\* C26: a run that has submitted a batch terminates: once SubmitBatch has returned
\* the output channel, that channel is eventually closed (all Results forwarded,
\* or the deadline of the run's context passed), which ends the loop of the run.
C26_RunTerminates ==
    \A c \in Callers : (op[c] = "batch" /\ ret[c] = "ok") ~> outClosed[c]

\* C27: RunNow starts a run and returns without waiting, whether or not another
\* run is in progress: a call of it is possible in every state of the other run,
\* and it does nothing but start the goroutine of the run.
C27_NoSingleFlight ==
    /\ [](rpc[ManualRun] = "idle" => ENABLED RunNow)
    /\ [][rpc[ManualRun] = "idle" /\ rpc'[ManualRun] # "idle"
           => /\ rpc' = [rpc EXCEPT ![ManualRun] = "go"]
              /\ UNCHANGED <<alertRecipients, lifecycle, outcome, got, saves,
                             successCount, errorCount, statusChanges, sends>>]_vars

\* The manual run has sent its notification while the cron run, begun before it,
\* is still in its loop with a change of its own for the same product to notify.
C27_Witness ==
    /\ rpc[CronRun] = "loop" /\ statusChanges[CronRun] # <<>>
    /\ rpc[ManualRun] = "done" /\ Len(StatusSends(ManualRun)) = 1
    /\ statusChanges[CronRun][1].ProductCode = statusChanges[ManualRun][1].ProductCode

\* C28: every Result on the shared result channel is consumed once by the result
\* processor, also after shutdown has begun: while the channel is open or holds a
\* Result the processor of a started pool has not exited and can take the next
\* Result; a Result leaves the channel only from its head, one at a time; and
\* the save callback is invoked for a Result exactly when it is consumed and has
\* no error, for a job that was not saved before.
C28_ResultsConsumedOnce ==
    /\ []((ppc # "off" /\ (~resultsClosed \/ results # <<>>))
           => (ppc = "loop" /\ (results = <<>> \/ ENABLED ProcessResults)))
    /\ [][/\ (results # <<>> /\ results' # results /\ Len(results') <= Len(results))
             => (/\ results' = Tail(results)
                 /\ saved' = IF Head(results).Error THEN saved
                             ELSE saved \cup {Head(results).Job})
          /\ (saved' # saved)
             => (/\ results # <<>> /\ results' = Tail(results)
                 /\ ~Head(results).Error
                 /\ Head(results).Job \notin saved
                 /\ saved' = saved \cup {Head(results).Job})]_vars

\* Shutdown has begun, a Result without error has been saved, and another Result
\* is on the channel with the processor still there to take it.
C28_Witness ==
    ctxDone /\ saved # {} /\ results # <<>> /\ ppc = "loop"

\* The stages of a job: in the intake queue, with a worker that fetches it, with a
\* worker that waits to send its Result, and with its Result delivered to a channel.
Queued == {jobs[i] : i \in 1..Len(jobs)}
Sending == {r.job : r \in {x \in BagToSet(wk) : x.pc = "send"}}
Delivered ==
    {results[i].Job : i \in 1..Len(results)}
    \cup UNION {{ich[c][i].Job : i \in 1..Len(ich[c])} : c \in Callers}
    \cup UNION {{out[c][i].Job : i \in 1..Len(out[c])} : c \in Callers}

\* C29 as claimed: the fetch of a job begins after the job was submitted, and the
\* observation of a job has been persisted when its Result is delivered to its
\* destination.
C29_PersistBeforeDeliver ==
    [][/\ \A j \in InFlightJobs' \ InFlightJobs : jobs # <<>> /\ j = Head(jobs)
       /\ \A j \in Delivered' \ Delivered : j \in saved]_vars

\* C29 as amended: the events of a job occur in the order submit, fetch,
\* deliver-result, persist.  A job enters the queue by the Submit of its caller,
\* its fetch begins when a worker takes it from the queue, its Result is delivered
\* by the worker that fetched it, and its observation is persisted when the result
\* processor takes its Result from the channel; a job is in one stage at a time,
\* and a persisted job is in none of the stages before.
C29_SubmitFetchDeliverPersist ==
    /\ [](/\ saved \cap (Queued \cup InFlightJobs \cup Sending \cup Delivered) = {}
          /\ Delivered \cap (Queued \cup InFlightJobs \cup Sending) = {}
          /\ Queued \cap (InFlightJobs \cup Sending) = {})
    /\ [][/\ \A j \in Queued' \ Queued :
                \E c \in Callers : pc[c] = "sub" /\ j = cjobs[c][idx[c]]
          /\ \A j \in InFlightJobs' \ InFlightJobs : jobs # <<>> /\ j = Head(jobs)
          /\ \A j \in Delivered' \ Delivered : j \in InFlightJobs \cup Sending
          /\ \A j \in saved' \ saved : results # <<>> /\ j = Head(results).Job]_vars

\* A job has gone through all its stages and is persisted, while the Result of a
\* second job is delivered and not yet consumed.
C29_Witness ==
    saved # {} /\ Delivered # {} /\ Queued = {} /\ InFlightJobs = {}

\* The Results that are on a channel or were handed to a caller.
AllResults ==
    {results[i] : i \in 1..Len(results)}
    \cup UNION {{ich[c][i] : i \in 1..Len(ich[c])} : c \in Callers}
    \cup UNION {{out[c][i] : i \in 1..Len(out[c])} : c \in Callers}
\* The Results that a worker holds, waiting to send them.
HeldResults == {WorkerResult(r.job, r.err) : r \in {x \in BagToSet(wk) : x.pc = "send"}}
\* A step in which the fetch of job j ends.
FetchEnds(j) == j \in InFlightJobs /\ j \notin InFlightJobs'

\* C30: a fetch error stops neither the worker nor the pool.  When the fetch of a
\* job ends, with an error or not, no worker exits, the pool keeps running, the
\* queue and the Results of other jobs stay as they are, and the worker either
\* has sent the Result of that job to its destination (or dropped it for want of
\* one) and is ready for the next job, or waits to send it; and every Result has
\* exactly one of data and error set.
C30_FetchErrorIsPerJob ==
    /\ [](\A x \in AllResults \cup HeldResults : x.Data # x.Error)
    /\ [][\A j \in InFlightJobs :
             FetchEnds(j)
             => /\ WorkersRunning' = WorkersRunning /\ wg' = wg
                /\ isRunning' = isRunning /\ ctxDone' = ctxDone /\ jobs' = jobs
                /\ AllResults \subseteq AllResults' /\ HeldResults \subseteq HeldResults'
                /\ \/ /\ Destination(j) = "none"
                      /\ AllResults' = AllResults /\ HeldResults' = HeldResults
                   \/ \E err \in BOOLEAN :
                         /\ WorkerResult(j, err) \in
                               (AllResults' \ AllResults) \cup (HeldResults' \ HeldResults)
                         /\ (AllResults' \cup HeldResults')
                               \ (AllResults \cup HeldResults) = {WorkerResult(j, err)}]_vars

\* A Result with an error has been delivered, the worker that sent it is fetching
\* the next job, and no worker has exited.
C30_Witness ==
    /\ \E x \in AllResults : x.Error /\ ~x.Data
    /\ InFlightJobs # {}
    /\ WorkersRunning = NumWorkers

====
